---- MODULE Spec2Model ----
(***************************************************************************)
(* Model of the animal record service (src/main.py): the table of Animal   *)
(* rows, the six request handlers, the name validator and the two-stage    *)
(* search.  Strings are sequences of character codes (ASCII), so that      *)
(* lowercasing, LIKE pattern matching, byte-wise ordering and the          *)
(* matching-blocks ratio are computed rather than assumed.                 *)
(***************************************************************************)
EXTENDS Integers, Sequences, FiniteSets, TLC

VARIABLES store, resp, procs

vars == <<store, resp, procs>>

(***************************************************************************)
(* Bounds of the model.                                                    *)
(***************************************************************************)
MaxId == 2
MaxTime == 2
MaxQueryLen == 2
MaxPad == 31
NumProcs == 2

(***************************************************************************)
(* Program constants.                                                      *)
(***************************************************************************)
MinNameLen == 2
MaxNameLen == 30
Space == 32
Newline == 10
Hyphen == 45
Percent == 37
Underscore == 95

(***************************************************************************)
(* Strings.                                                                *)
(***************************************************************************)
UpperCodes == 65..90
LowerCodes == 97..122

\* str.lower() and SQLite lower() on ASCII text
LowerChar(c) == IF c \in UpperCodes THEN c + 32 ELSE c

Lower(s) == [i \in 1..Len(s) |-> LowerChar(s[i])]

\* the character class [A-Za-z\-]
NameClass == UpperCodes \cup LowerCodes \cup {Hyphen}

\* re.match(r"^[A-Za-z\-]+$", name): one or more class characters up to the
\* end of the string; `$` also matches just before a final newline.
RegexMatch(name) ==
    LET n == Len(name)
        body == IF n >= 1 /\ name[n] = Newline THEN SubSeq(name, 1, n - 1) ELSE name
    IN  /\ Len(body) >= 1
        /\ \A i \in 1..Len(body) : body[i] \in NameClass

\* validate_name: the error raised, or "ok" with the returned string
validate_name(name) ==
    IF Len(name) < MinNameLen THEN [status |-> "InvalidNameFormat", value |-> <<>>]
    ELSE IF Len(name) > MaxNameLen THEN [status |-> "InvalidNameFormat", value |-> <<>>]
    ELSE IF name[Len(name)] = Space THEN [status |-> "InvalidNameFormat", value |-> <<>>]
    ELSE IF ~RegexMatch(name) THEN [status |-> "InvalidNameFormat", value |-> <<>>]
    ELSE [status |-> "ok", value |-> name]

\* SQLite's LIKE: % matches any run of characters, _ any one character,
\* every other character itself (ASCII case folded).
RECURSIVE LikeMatch(_, _)
LikeMatch(p, s) ==
    IF p = <<>> THEN s = <<>>
    ELSE IF Head(p) = Percent
         THEN LikeMatch(Tail(p), s) \/ (s # <<>> /\ LikeMatch(p, Tail(s)))
    ELSE IF s = <<>> THEN FALSE
    ELSE IF Head(p) = Underscore THEN LikeMatch(Tail(p), Tail(s))
    ELSE LowerChar(Head(p)) = LowerChar(Head(s)) /\ LikeMatch(Tail(p), Tail(s))

\* variant of LikePattern without the trailing wildcard
LikePatternSuffix(name_lower) == <<Percent>> \o name_lower

\* f"%{name_lower}%"
LikePattern(name_lower) == <<Percent>> \o name_lower \o <<Percent>>

\* byte-wise (BINARY collation) order of two strings
RECURSIVE StrLess(_, _)
StrLess(a, b) ==
    IF b = <<>> THEN FALSE
    ELSE IF a = <<>> THEN TRUE
    ELSE IF Head(a) # Head(b) THEN Head(a) < Head(b)
    ELSE StrLess(Tail(a), Tail(b))

(***************************************************************************)
(* difflib.SequenceMatcher(None, a, b).ratio()                             *)
(***************************************************************************)
\* length of the common run of a[i..ahi) and b[j..bhi), 1-based, half-open
RECURSIVE RunLen(_, _, _, _, _, _)
RunLen(a, b, i, j, ahi, bhi) ==
    IF i < ahi /\ j < bhi /\ a[i] = b[j]
    THEN 1 + RunLen(a, b, i + 1, j + 1, ahi, bhi)
    ELSE 0

SetMax(S) == CHOOSE x \in S : \A y \in S : y <= x
SetMin(S) == CHOOSE x \in S : \A y \in S : x <= y

\* find_longest_match: the longest block, the earliest in a, then in b
find_longest_match(a, b, alo, ahi, blo, bhi) ==
    LET pairs == (alo..(ahi - 1)) \X (blo..(bhi - 1))
        k == IF pairs = {} THEN 0
             ELSE SetMax({RunLen(a, b, p[1], p[2], ahi, bhi) : p \in pairs})
        i == IF k = 0 THEN alo
             ELSE SetMin({p[1] : p \in {x \in pairs : RunLen(a, b, x[1], x[2], ahi, bhi) = k}})
        j == IF k = 0 THEN blo
             ELSE SetMin({p[2] : p \in {x \in pairs :
                              x[1] = i /\ RunLen(a, b, x[1], x[2], ahi, bhi) = k}})
    IN  [i |-> i, j |-> j, size |-> k]

\* get_matching_blocks: total size of the blocks found by recursing to the
\* left and to the right of the longest block
RECURSIVE MatchSize(_, _, _, _, _, _)
MatchSize(a, b, alo, ahi, blo, bhi) ==
    LET m == find_longest_match(a, b, alo, ahi, blo, bhi)
    IN  IF m.size = 0 THEN 0
        ELSE m.size
             + (IF alo < m.i /\ blo < m.j
                THEN MatchSize(a, b, alo, m.i, blo, m.j) ELSE 0)
             + (IF m.i + m.size < ahi /\ m.j + m.size < bhi
                THEN MatchSize(a, b, m.i + m.size, ahi, m.j + m.size, bhi) ELSE 0)

\* ratio() >= 0.6, that is 2*M/T >= 6/10 (1.0 when both strings are empty)
RatioAtLeast(a, b) ==
    LET T == Len(a) + Len(b)
        M == MatchSize(a, b, 1, Len(a) + 1, 1, Len(b) + 1)
    IN  IF T = 0 THEN TRUE ELSE 10 * 2 * M >= 6 * T

(***************************************************************************)
(* The animals table.  A row is [id, name, created_at]; created_at 0 would *)
(* be NULL.                                                                *)
(***************************************************************************)
Times == 1..MaxTime
Ids == 1..MaxId

\* db.query(Animal).filter(Animal.id == id).first()
ById(st, id) == {r \in st : r.id = id}

\* INTEGER PRIMARY KEY without AUTOINCREMENT: one more than the largest id
NextId(st) == IF st = {} THEN 1 ELSE SetMax({r.id : r \in st}) + 1

\* variant of NameExists that compares the names as they are
NameExistsExact(st, name) == \E r \in st : r.name = name

\* filter(func.lower(Animal.name) == name.lower()).first()
NameExists(st, name) == \E r \in st : Lower(r.name) = Lower(name)

\* variant of NameExistsOther that does not leave out the row itself
NameExistsAny(st, name, id) == \E r \in st : Lower(r.name) = Lower(name)

\* filter(func.lower(Animal.name) == name.lower(), Animal.id != id).first()
NameExistsOther(st, name, id) ==
    \E r \in st : Lower(r.name) = Lower(name) /\ r.id # id

\* the UNIQUE constraint of the name column (exact, case-sensitive)
UniqueViolation(st, name, id) == \E r \in st : r.name = name /\ r.id # id

\* variant of CommitInsert that stores the name lowercased
CommitInsertLowered(st, name, now) ==
    IF \E r \in st : r.name = name
    THEN [status |-> "IntegrityError", store |-> st, body |-> <<>>]
    ELSE LET row == [id |-> NextId(st), name |-> Lower(name), created_at |-> now]
         IN  [status |-> "ok", store |-> st \cup {row}, body |-> <<row>>]

\* db.add(animal); db.commit(): the INSERT with the column defaults
CommitInsert(st, name, now) ==
    IF UniqueViolation(st, name, 0)
    THEN [status |-> "IntegrityError", store |-> st, body |-> <<>>]
    ELSE LET row == [id |-> NextId(st), name |-> name, created_at |-> now]
         IN  [status |-> "ok", store |-> st \cup {row}, body |-> <<row>>]

\* variant of CommitUpdate that also stamps the row (an onupdate timestamp)
CommitUpdateStamped(st, id, name) ==
    IF ById(st, id) = {}
    THEN [status |-> "StaleDataError", store |-> st, body |-> <<>>]
    ELSE LET old == CHOOSE r \in st : r.id = id
             row == [old EXCEPT !.name = name, !.created_at = MaxTime]
         IN  [status |-> "ok", store |-> (st \ {old}) \cup {row}, body |-> <<row>>]

\* animal.name = name; db.commit(); db.refresh(animal)
CommitUpdate(st, id, name) ==
    IF ById(st, id) = {}
    THEN [status |-> "StaleDataError", store |-> st, body |-> <<>>]
    ELSE IF UniqueViolation(st, name, id)
    THEN [status |-> "IntegrityError", store |-> st, body |-> <<>>]
    ELSE LET old == CHOOSE r \in st : r.id = id
             row == [old EXCEPT !.name = name]
         IN  [status |-> "ok", store |-> (st \ {old}) \cup {row}, body |-> <<row>>]

\* variant of CommitDelete that never issues the DELETE
CommitDeleteNothing(st, id) == [status |-> "ok", store |-> st, body |-> <<>>]

\* db.delete(animal); db.commit()
CommitDelete(st, id) ==
    [status |-> "ok", store |-> {r \in st : r.id # id}, body |-> <<>>]

(***************************************************************************)
(* Query results.  Without ORDER BY the rows come in rowid order.          *)
(***************************************************************************)
\* variant of Before that ignores the requested order
BeforeRowid(r, o, order) == r.id < o.id

\* whether row r comes before row o in the given order
Before(r, o, order) ==
    IF order = "name" THEN StrLess(r.name, o.name) \/ (r.name = o.name /\ r.id < o.id)
    ELSE IF order = "-name" THEN StrLess(o.name, r.name) \/ (r.name = o.name /\ r.id < o.id)
    ELSE r.id < o.id

RECURSIVE SortBy(_, _)
SortBy(S, order) ==
    IF S = {} THEN <<>>
    ELSE LET first == CHOOSE r \in S : \A o \in S \ {r} : Before(r, o, order)
         IN  <<first>> \o SortBy(S \ {first}, order)

RowidOrder(S) == SortBy(S, "rowid")

\* the first stage of search_animals: lower(name) LIKE '%q%'
LikeStage(st, name_lower) ==
    {r \in st : LikeMatch(LikePattern(name_lower), Lower(r.name))}

\* the fallback stage: SequenceMatcher(None, name_lower, a.name.lower()).ratio() >= 0.6
FuzzyStage(st, name_lower) ==
    {r \in st : RatioAtLeast(name_lower, Lower(r.name))}

\* the rows search_animals ends with (empty: SearchNotFound)
SearchRows(st, name) ==
    LET name_lower == Lower(name)
        filtered == LikeStage(st, name_lower)
    IN  IF filtered = {} THEN FuzzyStage(st, name_lower) ELSE filtered

(***************************************************************************)
(* Requests and responses.  resp is the last request with its outcome.     *)
(***************************************************************************)
NoSort == <<>>
NoDate == <<>>

Response(op, id, name, sort, from_date, to_date, status, body) ==
    [op |-> op, id |-> id, name |-> name, sort |-> sort, from_date |-> from_date,
     to_date |-> to_date, status |-> status, body |-> body]

\* names: "a", "Aa", "aa", "a-", "a ", "a%" and "a\n"
NameInputs ==
    { <<97>>, <<65, 97>>, <<97, 97>>, <<97, 45>>, <<97, 32>>, <<97, 37>>, <<97, 10>> }

\* queries: every string over "A" and "%" up to MaxQueryLen, and besides
\* "_", "A_", "___", "A-", "-A", "AAA" and "A-A"
QueryChars == {65, 37}
ExtraQueries ==
    { <<95>>, <<65, 95>>, <<95, 95, 95>>, <<65, 45>>, <<45, 65>>,
      <<65, 65, 65>>, <<65, 45, 65>> }

RECURSIVE StringsUpTo(_, _)
StringsUpTo(chars, n) ==
    IF n = 0 THEN {<<>>}
    ELSE LET shorter == StringsUpTo(chars, n - 1)
         IN  shorter \cup {Append(s, c) : s \in {x \in shorter : Len(x) = n - 1}, c \in chars}

QueryInputs == StringsUpTo(QueryChars, MaxQueryLen) \cup ExtraQueries

SortInputs == {NoSort, <<"">>, <<"name">>, <<"-name">>, <<"id">>}

\* a date parameter: absent, or an ISO string; 0 stands for a string that
\* datetime.fromisoformat rejects
FromDateInputs == {NoDate, <<0>>, <<MaxTime>>}
ToDateInputs == {NoDate, <<0>>, <<1>>}

Idle == [pc |-> "idle", op |-> "none", id |-> 0, name |-> <<>>, seen |-> <<>>]

Procs == 1..NumProcs

Init ==
    /\ store = {}
    /\ resp = Response("none", 0, <<>>, NoSort, NoDate, NoDate, "ok", <<>>)
    /\ procs = [p \in Procs |-> Idle]

(***************************************************************************)
(* The handlers, each request run to completion.                           *)
(***************************************************************************)
\* POST /animals
add_animal(name, now) ==
    LET v == validate_name(name)
        done(status, body) ==
            resp' = Response("create", 0, name, NoSort, NoDate, NoDate, status, body)
    IN  /\ IF v.status # "ok"
           THEN store' = store /\ done(v.status, <<>>)
           ELSE IF NameExists(store, v.value)
           THEN store' = store /\ done("DuplicateName", <<>>)
           ELSE LET c == CommitInsert(store, v.value, now)
                IN  /\ NextId(store) <= MaxId
                    /\ store' = c.store
                    /\ done(c.status, c.body)
        /\ UNCHANGED procs

\* PUT /animals/{id}
update_animal(id, name) ==
    LET v == validate_name(name)
        done(status, body) ==
            resp' = Response("update", id, name, NoSort, NoDate, NoDate, status, body)
    IN  /\ IF v.status # "ok"
           THEN store' = store /\ done(v.status, <<>>)
           ELSE IF ById(store, id) = {}
           THEN store' = store /\ done("AnimalNotFound", <<>>)
           ELSE IF NameExistsOther(store, name, id)
           THEN store' = store /\ done("DuplicateName", <<>>)
           ELSE LET c == CommitUpdate(store, id, name)
                IN  store' = c.store /\ done(c.status, c.body)
        /\ UNCHANGED procs

\* DELETE /animals/{id}
delete_animal(id) ==
    LET done(status) ==
            resp' = Response("delete", id, <<>>, NoSort, NoDate, NoDate, status, <<>>)
    IN  /\ IF ById(store, id) = {}
           THEN store' = store /\ done("AnimalNotFound")
           ELSE LET c == CommitDelete(store, id)
                IN  store' = c.store /\ done(c.status)
        /\ UNCHANGED procs

\* GET /animals/{id}
get_animal(id) ==
    LET found == ById(store, id)
    IN  /\ resp' = Response("get", id, <<>>, NoSort, NoDate, NoDate,
                            IF found = {} THEN "AnimalNotFound" ELSE "ok",
                            RowidOrder(found))
        /\ UNCHANGED <<store, procs>>

\* GET /animals
list_animals(sort, from_date, to_date) ==
    LET done(status, body) ==
            resp' = Response("list", 0, <<>>, sort, from_date, to_date, status, body)
        given(d) == d # NoDate
        bad(d) == given(d) /\ d[1] = 0
        rows == {r \in store :
                    /\ given(from_date) => r.created_at >= from_date[1]
                    /\ given(to_date) => r.created_at <= to_date[1]}
    IN  /\ IF bad(from_date) \/ bad(to_date)
           THEN done("ValueError", <<>>)
           ELSE IF sort # NoSort /\ sort[1] # ""
           THEN IF sort[1] = "name" THEN done("ok", SortBy(rows, "name"))
                ELSE IF sort[1] = "-name" THEN done("ok", SortBy(rows, "-name"))
                ELSE done("InvalidSortParameter", <<>>)
           ELSE done("ok", RowidOrder(rows))
        /\ UNCHANGED <<store, procs>>

\* GET /animals/search
search_animals(name) ==
    LET filtered == SearchRows(store, name)
    IN  /\ resp' = Response("search", 0, name, NoSort, NoDate, NoDate,
                            IF filtered = {} THEN "SearchNotFound" ELSE "ok",
                            RowidOrder(filtered))
        /\ UNCHANGED <<store, procs>>

Create == \E name \in NameInputs, now \in Times : add_animal(name, now)
Update == \E id \in Ids, name \in NameInputs : update_animal(id, name)
Delete == \E id \in Ids : delete_animal(id)
Get == \E id \in Ids : get_animal(id)
List == \E sort \in SortInputs, from_date \in FromDateInputs, to_date \in ToDateInputs :
            list_animals(sort, from_date, to_date)
Search == \E name \in QueryInputs : search_animals(name)

Next == Create \/ Update \/ Delete \/ Get \/ List \/ Search

Spec == Init /\ [][Next]_vars

(***************************************************************************)
(* The validator on its own: validate_name applied to strings of every     *)
(* length from 0 to past the upper limit.  The inputs are a run of "a"     *)
(* followed by up to two characters of "A", "-", " ", newline and "1".     *)
(***************************************************************************)
ValidateChars == {65, 45, 32, 10, 49}

Padding(k) == [i \in 1..k |-> 97]

ValidateInputs ==
    {Padding(k) \o tail : k \in 0..MaxPad, tail \in StringsUpTo(ValidateChars, 2)}

\* body holds the returned string
Validate(name) ==
    LET v == validate_name(name)
    IN  /\ resp' = Response("validate", 0, name, NoSort, NoDate, NoDate, v.status,
                            IF v.status = "ok" THEN <<v.value>> ELSE <<>>)
        /\ UNCHANGED <<store, procs>>

NextValidate == \E name \in ValidateInputs : Validate(name)

SpecValidate == Init /\ [][NextValidate]_vars

(***************************************************************************)
(* Concurrent requests.  Handlers are plain functions, which the framework *)
(* runs on worker threads, each with its own session; a handler's queries  *)
(* and its commit are separate statements on the database, and statements  *)
(* of different requests interleave.  procs[p] is the handler running on   *)
(* worker p: its position, its arguments and the name it loaded.           *)
(***************************************************************************)
ConcNames == { <<65, 97>>, <<97, 97>>, <<97, 45>>, <<97>> }

Running(pc, op, id, name, seen) ==
    [pc |-> pc, op |-> op, id |-> id, name |-> name, seen |-> seen]

\* add_animal up to its uniqueness query
BeginCreate(p, name) ==
    /\ procs[p].pc = "idle"
    /\ procs' = [procs EXCEPT ![p] =
                    IF validate_name(name).status # "ok" THEN Idle
                    ELSE IF NameExists(store, name) THEN Idle
                    ELSE Running("commit", "create", 0, name, <<>>)]
    /\ UNCHANGED <<store, resp>>

\* add_animal from db.add to the end
FinishCreate(p, now) ==
    /\ procs[p].pc = "commit" /\ procs[p].op = "create"
    /\ LET c == CommitInsert(store, procs[p].name, now)
       IN  /\ c.status = "ok" => NextId(store) <= MaxId
           /\ store' = c.store
    /\ procs' = [procs EXCEPT ![p] = Idle]
    /\ UNCHANGED resp

\* update_animal up to the query that loads the row
BeginUpdate(p, id, name) ==
    /\ procs[p].pc = "idle"
    /\ procs' = [procs EXCEPT ![p] =
                    IF validate_name(name).status # "ok" THEN Idle
                    ELSE IF ById(store, id) = {} THEN Idle
                    ELSE Running("check", "update", id, name,
                                 (CHOOSE r \in store : r.id = id).name)]
    /\ UNCHANGED <<store, resp>>

\* update_animal's uniqueness query
CheckUpdate(p) ==
    /\ procs[p].pc = "check"
    /\ procs' = [procs EXCEPT ![p] =
                    IF NameExistsOther(store, procs[p].name, procs[p].id) THEN Idle
                    ELSE [procs[p] EXCEPT !.pc = "commit"]]
    /\ UNCHANGED <<store, resp>>

\* update_animal from the assignment to the end; assigning the name the
\* session loaded changes nothing and issues no UPDATE
FinishUpdate(p) ==
    /\ procs[p].pc = "commit" /\ procs[p].op = "update"
    /\ store' = IF procs[p].name = procs[p].seen THEN store
                ELSE CommitUpdate(store, procs[p].id, procs[p].name).store
    /\ procs' = [procs EXCEPT ![p] = Idle]
    /\ UNCHANGED resp

\* delete_animal up to the query that loads the row
BeginDelete(p, id) ==
    /\ procs[p].pc = "idle"
    /\ procs' = [procs EXCEPT ![p] =
                    IF ById(store, id) = {} THEN Idle
                    ELSE Running("commit", "delete", id, <<>>, <<>>)]
    /\ UNCHANGED <<store, resp>>

\* delete_animal from db.delete to the end
FinishDelete(p) ==
    /\ procs[p].pc = "commit" /\ procs[p].op = "delete"
    /\ store' = CommitDelete(store, procs[p].id).store
    /\ procs' = [procs EXCEPT ![p] = Idle]
    /\ UNCHANGED resp

ConcCreate == \E p \in Procs, name \in ConcNames : BeginCreate(p, name)
ConcCreateCommit == \E p \in Procs, now \in Times : FinishCreate(p, now)
ConcUpdate == \E p \in Procs, id \in Ids, name \in ConcNames : BeginUpdate(p, id, name)
ConcUpdateCheck == \E p \in Procs : CheckUpdate(p)
ConcUpdateCommit == \E p \in Procs : FinishUpdate(p)
ConcDelete == \E p \in Procs, id \in Ids : BeginDelete(p, id)
ConcDeleteCommit == \E p \in Procs : FinishDelete(p)

NextConc ==
    \/ ConcCreate \/ ConcCreateCommit
    \/ ConcUpdate \/ ConcUpdateCheck \/ ConcUpdateCommit
    \/ ConcDelete \/ ConcDeleteCommit

SpecConc == Init /\ [][NextConc]_vars

(***************************************************************************)
(* Vocabulary of the properties.                                           *)
(***************************************************************************)
\* a name as the data model describes it: 2 to 30 letters and hyphens
WellFormed(n) ==
    /\ Len(n) >= 2 /\ Len(n) <= 30
    /\ \A i \in 1..Len(n) : n[i] \in (65..90) \cup (97..122) \cup {45}

\* a equals b when compared case-insensitively
SameNameCI(a, b) == Lower(a) = Lower(b)

\* q occurs in s as a contiguous run of characters
IsSubstring(q, s) ==
    \E k \in 0..(Len(s) - Len(q)) : \A i \in 1..Len(q) : s[k + i] = q[i]

\* a comes strictly before b in lexicographic order of character codes
LexLess(a, b) ==
    \E k \in 1..Len(b) :
        /\ \A m \in 1..(k - 1) : m <= Len(a) /\ a[m] = b[m]
        /\ (k > Len(a) \/ a[k] < b[k])

RowsOf(body) == {body[i] : i \in 1..Len(body)}

IdsOf(st) == {r.id : r \in st}

\* body lists every row of st exactly once
ListsAll(body, st) == RowsOf(body) = st /\ Len(body) = Cardinality(st)

Unfiltered == resp.from_date = NoDate /\ resp.to_date = NoDate

(***************************************************************************)
(* C1: after any sequence of create, update and delete requests run one    *)
(* after another from the empty table, no two rows have names that are     *)
(* equal when compared case-insensitively.                                 *)
(***************************************************************************)
C1_UniqueNamesCI ==
    \A r1 \in store, r2 \in store : r1 # r2 => ~SameNameCI(r1.name, r2.name)

\* two rows are stored and a create whose name differs from a stored one in
\* case only has just been refused
C1_Witness ==
    /\ Cardinality(store) = 2
    /\ resp.op = "create" /\ resp.status = "DuplicateName"
    /\ \A r \in store : r.name # resp.name

(***************************************************************************)
(* C3: a create with a well-formed name that matches no stored name        *)
(* case-insensitively adds exactly one row, with that name unmodified, an  *)
(* id no stored row has and a non-null created_at; a get by that id right  *)
(* afterwards returns the same name and timestamp.                         *)
(***************************************************************************)
C3_CreateThenGet ==
    [][ /\ ( /\ resp'.op = "create"
             /\ WellFormed(resp'.name)
             /\ \A r \in store : ~SameNameCI(r.name, resp'.name) )
           => /\ resp'.status = "ok"
              /\ Len(resp'.body) = 1
              /\ LET row == resp'.body[1]
                 IN  /\ row \notin store
                     /\ store' = store \cup {row}
                     /\ row.name = resp'.name
                     /\ row.id \notin IdsOf(store)
                     /\ row.created_at # 0
        /\ ( /\ resp.op = "create" /\ resp.status = "ok"
             /\ resp'.op = "get" /\ resp'.id = resp.body[1].id )
           => /\ resp'.status = "ok"
              /\ Len(resp'.body) = 1
              /\ resp'.body[1].name = resp.name
              /\ resp'.body[1].created_at = resp.body[1].created_at
              /\ resp'.body[1].created_at # 0
      ]_vars

\* a create has just succeeded on a table that already held a row
C3_Witness ==
    /\ resp.op = "create" /\ resp.status = "ok"
    /\ Cardinality(store) = 2
    /\ resp.body[1] \in store

(***************************************************************************)
(* C4: for a stored row i and a well-formed name n, update(i, n) fails     *)
(* with DuplicateName and leaves the table unchanged whenever another row  *)
(* has a name equal to n case-insensitively, and succeeds when n is the    *)
(* current name of row i.                                                  *)
(***************************************************************************)
C4_UpdateUniqueness ==
    [][ ( /\ resp'.op = "update"
          /\ resp'.id \in IdsOf(store)
          /\ WellFormed(resp'.name) )
        => /\ (\E r \in store : r.id # resp'.id /\ SameNameCI(r.name, resp'.name))
              => (resp'.status = "DuplicateName" /\ store' = store)
           /\ (\E r \in store : r.id = resp'.id /\ r.name = resp'.name)
              => resp'.status = "ok"
      ]_vars

\* an update to another row's name in a different case has just been refused
C4_Witness ==
    /\ resp.op = "update" /\ resp.status = "DuplicateName"
    /\ \E r \in store : r.id # resp.id /\ r.name # resp.name
                        /\ SameNameCI(r.name, resp.name)

(***************************************************************************)
(* C5: delete(i) of a stored row removes it, so that a get(i), an          *)
(* update(i, well-formed name) or a delete(i) right afterwards fails with  *)
(* AnimalNotFound; delete(i) of an id that is not stored fails with        *)
(* AnimalNotFound and leaves the table unchanged.                          *)
(***************************************************************************)
C5_DeleteRemoves ==
    [][ /\ (resp'.op = "delete" /\ resp'.id \in IdsOf(store))
           => (resp'.status = "ok" /\ resp'.id \notin IdsOf(store'))
        /\ (resp'.op = "delete" /\ resp'.id \notin IdsOf(store))
           => (resp'.status = "AnimalNotFound" /\ store' = store)
        /\ ( /\ resp.op = "delete" /\ resp.status = "ok"
             /\ resp'.id = resp.id
             /\ \/ resp'.op \in {"get", "delete"}
                \/ resp'.op = "update" /\ WellFormed(resp'.name) )
           => (resp'.status = "AnimalNotFound" /\ store' = store)
      ]_vars

\* a delete has just succeeded and another row remains
C5_Witness ==
    /\ resp.op = "delete" /\ resp.status = "ok"
    /\ store # {} /\ resp.id \notin IdsOf(store)

(***************************************************************************)
(* C6 as stated: for a list request without date filters, sort=name        *)
(* returns all rows in ascending lexicographic order of name, sort=-name   *)
(* in descending order, and every other supplied sort value, the empty     *)
(* string included, fails with InvalidSortParameter.                       *)
(***************************************************************************)
\* the response lists every row, each name before (dir = 1) or after
\* (dir = -1) the names that follow it
SortedList(dir) ==
    /\ resp.status = "ok"
    /\ ListsAll(resp.body, store)
    /\ \A i \in 1..Len(resp.body), j \in 1..Len(resp.body) :
          i < j => IF dir = 1 THEN LexLess(resp.body[i].name, resp.body[j].name)
                   ELSE LexLess(resp.body[j].name, resp.body[i].name)

C6_SortAsStated ==
    (resp.op = "list" /\ Unfiltered /\ resp.sort # NoSort)
    => /\ resp.sort = <<"name">> => SortedList(1)
       /\ resp.sort = <<"-name">> => SortedList(-1)
       /\ resp.sort \notin {<<"name">>, <<"-name">>}
          => resp.status = "InvalidSortParameter"

(***************************************************************************)
(* C6 amended: for a list request without date filters, sort=name returns  *)
(* all rows in ascending lexicographic order of name, sort=-name in        *)
(* descending order, every other non-empty sort value fails with           *)
(* InvalidSortParameter, and an empty sort value is treated as no sort:    *)
(* the request succeeds and returns all rows.                              *)
(***************************************************************************)
C6_Sort ==
    (resp.op = "list" /\ Unfiltered /\ resp.sort # NoSort)
    => /\ resp.sort = <<"name">> => SortedList(1)
       /\ resp.sort = <<"-name">> => SortedList(-1)
       /\ resp.sort \notin {<<"name">>, <<"-name">>, <<"">>}
          => resp.status = "InvalidSortParameter"
       /\ resp.sort = <<"">>
          => (resp.status = "ok" /\ ListsAll(resp.body, store))

\* a list sorted by name has returned two rows against their rowid order
C6_Witness ==
    /\ resp.op = "list" /\ Unfiltered /\ resp.sort = <<"name">>
    /\ resp.status = "ok" /\ Len(resp.body) = 2
    /\ resp.body[1].id > resp.body[2].id

(***************************************************************************)
(* C7: when some stored name contains lowercase(q) as a contiguous         *)
(* substring of its lowercased form, search(q) returns exactly the rows    *)
(* whose lowercased name contains lowercase(q) as a literal substring.     *)
(***************************************************************************)
SubstringRows(st, q) == {r \in st : IsSubstring(Lower(q), Lower(r.name))}

C7_SubstringSearch ==
    (resp.op = "search" /\ SubstringRows(store, resp.name) # {})
    => /\ resp.status = "ok"
       /\ RowsOf(resp.body) = SubstringRows(store, resp.name)
       /\ Len(resp.body) = Cardinality(SubstringRows(store, resp.name))

\* a search with a non-empty query has returned one stored row and left
\* out another
C7_Witness ==
    /\ resp.op = "search" /\ resp.status = "ok" /\ resp.name # <<>>
    /\ SubstringRows(store, resp.name) # {}
    /\ RowsOf(resp.body) # store
    /\ RowsOf(resp.body) = SubstringRows(store, resp.name)

(***************************************************************************)
(* C8: when no stored name contains lowercase(q) as a substring, search(q) *)
(* returns exactly the rows whose lowercased name has a matching-blocks    *)
(* ratio of at least 0.6 with lowercase(q); it fails with SearchNotFound   *)
(* exactly when both the substring rows and these fallback rows are empty, *)
(* so a successful search is never empty and never mixes the two stages.   *)
(***************************************************************************)
C8_FallbackSearch ==
    resp.op = "search"
    => LET sub == SubstringRows(store, resp.name)
           fuzzy == FuzzyStage(store, Lower(resp.name))
           got == RowsOf(resp.body)
       IN  /\ sub = {} => got = fuzzy
           /\ resp.status = "SearchNotFound" <=> (sub = {} /\ fuzzy = {})
           /\ resp.status = "ok" => got # {}
           /\ got = sub \/ got = fuzzy

(***************************************************************************)
(* C10: the id and created_at of a row never change; a successful update   *)
(* changes only the name of its row and leaves every other row as it was;  *)
(* get, list and search requests and every request that fails leave the    *)
(* whole table unchanged.                                                  *)
(***************************************************************************)
C10_Frame ==
    [][ /\ \A r \in store, n \in store' : r.id = n.id => r.created_at = n.created_at
        /\ (resp'.op = "update" /\ resp'.status = "ok")
           => \E old \in store :
                 /\ old.id = resp'.id
                 /\ store' = (store \ {old}) \cup {[old EXCEPT !.name = resp'.name]}
        /\ (resp'.op \in {"get", "list", "search"} \/ resp'.status # "ok")
           => store' = store
      ]_vars

\* an update has just renamed a row created at instant 1 while another row
\* is stored
C10_Witness ==
    /\ resp.op = "update" /\ resp.status = "ok"
    /\ Cardinality(store) = 2
    /\ resp.body[1] \in store /\ resp.body[1].created_at = 1

(***************************************************************************)
(* C2: validate_name fails with InvalidNameFormat exactly when the string  *)
(* is shorter than 2, longer than 30, ends with a space or contains a      *)
(* character outside [A-Za-z-]; every other string is returned unmodified, *)
(* so an accepted name has 2 to 30 characters, all letters or hyphens.     *)
(***************************************************************************)
C2_ValidateName ==
    resp.op = "validate"
    => LET n == resp.name
           rejected == \/ Len(n) < 2
                       \/ Len(n) > 30
                       \/ n[Len(n)] = 32
                       \/ \E i \in 1..Len(n) : n[i] \notin (65..90) \cup (97..122) \cup {45}
       IN  /\ resp.status = "InvalidNameFormat" <=> rejected
           /\ ~rejected => (resp.status = "ok" /\ resp.body = <<n>>)
           /\ resp.status = "ok" => WellFormed(n)

(***************************************************************************)
(* C9: create and update are atomic with respect to other requests: no     *)
(* interleaving of the uniqueness checks and the commits of concurrent     *)
(* requests leaves two rows whose names are equal case-insensitively.      *)
(***************************************************************************)
C9_AtomicUniqueness ==
    \A r1 \in store, r2 \in store : r1.id # r2.id => ~SameNameCI(r1.name, r2.name)

====
